---- MODULE Spec2Model ----
(***************************************************************************)
(* Boost.Contract: the RAII guard `check` (include/boost/contract/check.hpp)*)
(* and the private/protected virtual counter example.                      *)
(*                                                                         *)
(* Part 1 (Spec): the life cycle of specification builders, condition      *)
(* holders and guards around one contracted function; with a failing check *)
(* (SpecFail), a dropped builder (SpecDiscard), a builder bound twice      *)
(* (SpecRebind) and the build without conditions (SpecStripped).           *)
(* Part 2 (SpecVirtual, SpecBoundary): the calls of the counter example.   *)
(* Part 3 (SpecReentrant): predicates that call contracted functions.      *)
(***************************************************************************)
EXTENDS Integers, Sequences, FiniteSets, TLC

\* Guards that may be declared in one run (check objects c1, c2, ...).
MaxGuards == 3
\* Invocations of the contracted function (one builder and one holder each).
MaxBuilders == 2

Guards == 1..MaxGuards
Builders == 1..MaxBuilders
\* A holder is named after the builder that created it.
Holders == Builders

\* The null auto_ptr<cond_base>.
NoCond == 0

VARIABLES
    contract,     \* the contract of the function: kind and the elements given
    built,        \* built[b]: invocation b has produced its builder
    builderCond,  \* builderCond[b]: the builder's cond_ pointer
    guardLife,    \* guardLife[g]: "unborn", "alive" or "dead"
    guardCond,    \* guardCond[g]: the guard's cond_ pointer
    guardSrc,     \* guardSrc[g]: the constructor that made g
    functorLine,  \* functorLine[g]: g was made from a functor, or copied from such
    movedFrom,    \* movedFrom[g]: g has been the source of a copy
    deletedBy,    \* deletedBy[g]: the holder g's destructor deleted, or NoCond
    fCalls,       \* fCalls[g]: calls of the functor made by g's constructor
    log,          \* log[h]: what has happened to holder h and its scope, in order
    bodyState,    \* bodyState[h]: "not_run", "returned" or "threw"
    cntN,         \* cntN[o]: the member n_ of the counter object o
    call,         \* the last contracted call made by the client, and its outcome
    terminated,   \* the failure handler has terminated the program
    handler,      \* the failure handler installed: "terminate" (default) or "throw"
    failing,      \* the check whose predicate fails in this run, or "none"
    reported,     \* the failures handed to the failure handler: <<holder, kind>>
    halted,       \* the program has been terminated (part 1)
    escaped,      \* failures that left a guard's constructor or destructor
    nullUse,      \* a guard's constructor has used a null cond_
    noConditions, \* the build defines BOOST_CONTRACT_NO_CONDITIONS
    stack,        \* part 3: the frames of the calls and predicates in progress
    evals,        \* part 3: predicates evaluated so far in the client's call
    overflow      \* part 3: the call stack has outgrown the model

\* Part 1: builders, holders and guards.
lvars == <<contract, built, builderCond, guardLife, guardCond, guardSrc,
           functorLine, movedFrom, deletedBy, fCalls, log, bodyState>>
\* Part 2: calls of contracted (virtual) functions.
xvars == <<cntN, call, terminated>>

\* Failures of checks and what becomes of them.
fvars == <<handler, failing, reported, halted, escaped, nullUse>>
\* The build, and part 3: predicates that call contracted functions.
pvars == <<noConditions, stack, evals, overflow>>

vars == <<lvars, xvars, fvars, pvars>>

----------------------------------------------------------------------------
(* Contracts *)

Kinds == {"function", "constructor", "destructor", "public_function"}

\* kind: the contract function used; pre/old/post/except: the functors chained
\* on the builder; inv/sinv: the class declares invariant()/static_invariant();
\* oldof: an old value is initialised with OLDOF where it is declared, before
\* the guard (counter::dec).
Contracts ==
    { c \in [kind : Kinds, pre : BOOLEAN, old : BOOLEAN, post : BOOLEAN,
             except : BOOLEAN, inv : BOOLEAN, sinv : BOOLEAN, oldof : BOOLEAN] :
        /\ (c.kind \in {"constructor", "destructor"} => ~c.pre)
        /\ (c.kind = "function" => ~c.inv /\ ~c.sinv) }

Opt(b, e) == IF b THEN <<e>> ELSE <<>>

\* Non-static class invariants at entry: never for constructors.
InvAtEntry(c) == c.inv /\ c.kind \in {"destructor", "public_function"}

\* Non-static class invariants at exit: constructors only on success,
\* destructors only when the body threw.
InvAtExit(c, threw) ==
    /\ c.inv
    /\ CASE c.kind = "constructor" -> ~threw
         [] c.kind = "destructor" -> threw
         [] c.kind = "public_function" -> TRUE
         [] OTHER -> FALSE

\* Static class invariants: always, at entry and at exit.
StaticInvAtEntry(c) == c.sinv /\ c.kind # "function"
StaticInvAtExit(c, threw) == c.sinv /\ c.kind # "function"

\* cond_base::initialize(): the entry checks of a holder.
Initialize(c) ==
    <<"initialize">>
        \o Opt(StaticInvAtEntry(c), "entry_static_inv")
        \o Opt(InvAtEntry(c), "entry_inv")
        \o Opt(c.pre, "pre")
        \o Opt(c.old, "old")

\* The holder's destructor: the exit checks.
ExitChecks(c, threw) ==
    <<"delete">>
        \o (IF threw THEN Opt(c.except, "except") ELSE Opt(c.post, "post"))
        \o Opt(StaticInvAtExit(c, threw), "exit_static_inv")
        \o Opt(InvAtExit(c, threw), "exit_inv")

----------------------------------------------------------------------------
(* auto_ptr and the pieces of check's constructors and destructor *)

\* auto_ptr::release(): what the caller gets, and what the source is left with.
Released(p) == p

SourceKeepsPointer(p) == p
AfterRelease(p) == NoCond

\* BOOST_CONTRACT_CHECK_CTOR_DEF_: cond_->initialize() in the constructor body.
CtorSkipsInitialize(c) == <<>>
CtorInitialize(c) == Initialize(c)

\* ~check(): the auto_ptr member deletes the holder it still has.
DtorLeaks(p) == NoCond
DtorDeletes(p) == p

\* check(F const& f): { f(); }
FunctorNotCalled == 1 - 1
FunctorCalls == 1

\* The constructor has no try block around cond_->initialize(): what the
\* failure handler throws leaves the constructor.
CtorSwallowsFailure(thrown) == FALSE
CtorPropagates(thrown) == thrown

\* ~check() BOOST_NOEXCEPT_IF(false): the destructor may let an exception out.
DtorNoexcept == FALSE
DtorMayThrow == TRUE

\* BOOST_CONTRACT_CHECK_CTOR_DEF_ where BOOST_CONTRACT_NO_CONDITIONS is defined
\* (and BOOST_CONTRACT_STATIC_LINK is not): {}
StrippedCtorInitializes(c) == Initialize(c)
StrippedCtor(c) == <<>>

----------------------------------------------------------------------------
(* Failing checks and the failure handler *)

Checks == {"entry_static_inv", "entry_inv", "pre", "old",
           "post", "except", "exit_static_inv", "exit_inv"}

\* The kind of failure the handler is told of.
FailureOf(e) ==
    CASE e \in {"entry_static_inv", "entry_inv"} -> "entry_invariant_failure"
      [] e = "pre" -> "precondition_failure"
      [] e = "old" -> "old_failure"
      [] e = "post" -> "postcondition_failure"
      [] e = "except" -> "except_failure"
      [] OTHER -> "exit_invariant_failure"

\* The checks of s that run: up to the first one that fails.
RECURSIVE UpTo(_, _)
UpTo(s, f) ==
    IF s = <<>> THEN <<>>
    ELSE IF Head(s) = f THEN <<f>>
    ELSE <<Head(s)>> \o UpTo(Tail(s), f)

\* A holder deleted after one of its entry checks failed runs no exit check.
DeleteAfterFailure == <<"delete">>

----------------------------------------------------------------------------
(* Part 2: contracted calls. A call is evaluated as a whole: its checks, its  *)
(* body and the calls the body makes. A result is [n, log, fail]: the value   *)
(* of n_ afterwards, the checks and bodies run in order, and the check that   *)
(* failed (NoFail if none; the default handler then terminates the program).  *)

\* The width of int in the model, and std::numeric_limits<int>::min().
IntBits == 6
IntMin == -(2 ^ (IntBits - 1))

\* Longest override chain of the generic calls (most-derived class included).
MaxDepth == 3

NoFail == <<>>
Ev(kind, c, fn) == <<kind, c, fn>>
PF(b) == IF b THEN "pass" ELSE "fail"
Range(q) == {q[i] : i \in 1..Len(q)}

\* AND-composition over the chain: every class's predicate is evaluated, up to
\* the first that fails.
RECURSIVE AndLog(_, _, _, _)
AndLog(kind, fn, cs, res) ==
    IF cs = <<>> THEN <<>>
    ELSE LET c == Head(cs) IN
         CASE res[c] = "none" -> AndLog(kind, fn, Tail(cs), res)
           [] res[c] = "fail" -> <<Ev(kind, c, fn)>>
           [] OTHER -> <<Ev(kind, c, fn)>> \o AndLog(kind, fn, Tail(cs), res)
AndOk(cs, res) == \A c \in Range(cs) : res[c] # "fail"

\* OR-composition over the chain, short-circuit: the first class whose
\* precondition passes (or that has none) settles it.
RECURSIVE OrLog(_, _, _, _)
OrLog(kind, fn, cs, res) ==
    IF cs = <<>> THEN <<>>
    ELSE LET c == Head(cs) IN
         CASE res[c] = "none" -> <<>>
           [] res[c] = "pass" -> <<Ev(kind, c, fn)>>
           [] OTHER -> <<Ev(kind, c, fn)>> \o OrLog(kind, fn, Tail(cs), res)
OrOk(cs, res) == \E c \in Range(cs) : res[c] # "fail"

\* A guarded call. k: the chain cs (most-derived class first), the function fn,
\* the outcome of each class's entry invariant (invE), precondition (pre), exit
\* predicate (xit: postcondition, or exception guarantee if the body threw) and
\* exit invariant (invX), the value n0 at entry and whether the body threw.
\* body: the result of the body.
Guarded(k, body) ==
    LET fn == k.fn
        top == k.cs[1]
        e1 == AndLog("entry_inv", fn, k.cs, k.invE)
        e2 == e1 \o OrLog("pre", fn, k.cs, k.pre)
        e3 == e2 \o <<Ev("body", top, fn)>> \o body.log
        e4 == e3 \o AndLog(IF k.threw THEN "except" ELSE "post", fn, k.cs, k.xit)
        e5 == e4 \o AndLog("exit_inv", fn, k.cs, k.invX)
    IN  CASE ~AndOk(k.cs, k.invE) ->
                [n |-> k.n0, log |-> e1, fail |-> Ev("entry_inv", top, fn)]
          [] ~OrOk(k.cs, k.pre) ->
                [n |-> k.n0, log |-> e2, fail |-> Ev("pre", top, fn)]
          [] body.fail # NoFail ->
                [n |-> body.n, log |-> e3, fail |-> body.fail]
          [] ~AndOk(k.cs, k.xit) ->
                [n |-> body.n, log |-> e4,
                 fail |-> Ev(IF k.threw THEN "except" ELSE "post", top, fn)]
          [] ~AndOk(k.cs, k.invX) ->
                [n |-> body.n, log |-> e5, fail |-> Ev("exit_inv", top, fn)]
          [] OTHER -> [n |-> body.n, log |-> e5, fail |-> NoFail]

\* Two calls one after the other; a failure ends the program.
Then(r1, r2) ==
    IF r1.fail # NoFail THEN r1
    ELSE [n |-> r2.n, log |-> r1.log \o r2.log, fail |-> r2.fail]

----------------------------------------------------------------------------
(* The counters of the example *)

Objects == {"cnt", "cnt10"}
Classes == {"counter", "counter10"}
\* counter cnt; counter10 cnt10; counter& b = cnt10;
DynType(o) == IF o = "cnt10" THEN "counter10" ELSE "counter"

\* counter::invariant(): get() <= 0;  counter10::invariant(): get() % 10 == 0.
InvariantStrict(c, n) == IF c = "counter10" THEN n % 10 = 0 ELSE n < 0
InvariantOfBase(c, n) == n <= 0
Invariant(c, n) == IF c = "counter10" THEN n % 10 = 0 ELSE n <= 0

\* The functions declared with an override tag: counter10::get
\* (public_function<override_get>, BOOST_CONTRACT_OVERRIDE(get)). counter10::dec
\* and counter10::set override a private and a protected virtual and use
\* public_function(v, this) without a tag.
EveryOverrideTagged(c, fn) == c = "counter10"
NoOverrideTagged(c, fn) == FALSE
HasOverride(c, fn) == c = "counter10" /\ fn = "get"

\* The classes whose contracts one call of c::fn checks.
Chain(c, fn) == IF HasOverride(c, fn) THEN <<"counter10", "counter">> ELSE <<c>>

NoneOf == [c \in Classes |-> "none"]
InvOf(n) == [c \in Classes |-> PF(Invariant(c, n))]
NoBody(n) == [n |-> n, log |-> <<>>, fail |-> NoFail]

\* counter::get(): public_function(v, result, this); postcondition
\* result <= 0 and result == n_; body: return result = n_.
GetPost(result, n) == result <= 0 /\ result = n
CounterGet(n) ==
    Guarded([cs |-> <<"counter">>, fn |-> "get", n0 |-> n, threw |-> FALSE,
             invE |-> InvOf(n), pre |-> NoneOf,
             xit |-> [NoneOf EXCEPT !["counter"] = PF(GetPost(n, n))],
             invX |-> InvOf(n)],
            NoBody(n))

\* counter10::get(): public_function<override_get>(v, result, &counter10::get,
\* this), no predicate of its own; body: return result = counter::get().
Counter10Get(n) ==
    Guarded([cs |-> Chain("counter10", "get"), fn |-> "get", n0 |-> n,
             threw |-> FALSE, invE |-> InvOf(n), pre |-> NoneOf,
             xit |-> [NoneOf EXCEPT !["counter"] = PF(GetPost(n, n))],
             invX |-> InvOf(n)],
            CounterGet(n))

\* get() through the virtual table.
Get(c, n) == IF c = "counter10" THEN Counter10Get(n) ELSE CounterGet(n)

\* counter::set(n): function(); precondition n <= 0; postcondition
\* get() == n; body: n_ = n. No class invariants for function().
CounterSetPre(a) == a <= 0
CounterSet(n, a) ==
    Guarded([cs |-> <<"counter">>, fn |-> "set", n0 |-> n, threw |-> FALSE,
             invE |-> NoneOf, pre |-> [NoneOf EXCEPT !["counter"] = PF(CounterSetPre(a))],
             xit |-> [NoneOf EXCEPT !["counter"] = PF(a = a)],
             invX |-> NoneOf],
            NoBody(a))

\* counter10::set(n): public_function(v, this); precondition n % 10 == 0;
\* postcondition get() == n; body: counter::set(n).
Counter10SetPre(a) == a % 10 = 0
Counter10Set(n, a) ==
    LET body == CounterSet(n, a) IN
    Guarded([cs |-> Chain("counter10", "set"), fn |-> "set", n0 |-> n,
             threw |-> FALSE, invE |-> InvOf(n),
             pre |-> [counter10 |-> PF(Counter10SetPre(a)),
                      counter |-> PF(CounterSetPre(a))],
             xit |-> [counter10 |-> PF(body.n = a), counter |-> PF(body.n = a)],
             invX |-> InvOf(body.n)],
            body)

\* set(n) through the virtual table.
Set(c, n, a) == IF c = "counter10" THEN Counter10Set(n, a) ELSE CounterSet(n, a)

\* counter::dec(): old_get = OLDOF(get()); function(); precondition
\* get() + 1 >= INT_MIN; postcondition get() == *old_get - 1;
\* body: set(get() - 1). Run for an object of dynamic type c.
CounterDec(c, n) ==
    LET body == Then(Get(c, n), Set(c, n, n - 1)) IN
    Then(Get(c, n),
         Guarded([cs |-> <<"counter">>, fn |-> "dec", n0 |-> n, threw |-> FALSE,
                  invE |-> NoneOf,
                  pre |-> [NoneOf EXCEPT !["counter"] = PF(n + 1 >= IntMin)],
                  xit |-> [NoneOf EXCEPT !["counter"] = PF(body.n = n - 1)],
                  invX |-> NoneOf],
                 body))

\* counter10::dec(): old_get = OLDOF(v, get()); public_function(v, this);
\* precondition get() + 10 >= INT_MIN; postcondition get() == *old_get - 10;
\* body: set(get() - 10).
Counter10Dec(n) ==
    LET body == Then(Get("counter10", n), Set("counter10", n, n - 10)) IN
    Then(Get("counter10", n),
         Guarded([cs |-> Chain("counter10", "dec"), fn |-> "dec", n0 |-> n,
                  threw |-> FALSE, invE |-> InvOf(n),
                  pre |-> [counter10 |-> PF(n + 10 >= IntMin),
                           counter |-> PF(n + 1 >= IntMin)],
                  xit |-> [counter10 |-> PF(body.n = n - 10),
                           counter |-> PF(body.n = n - 1)],
                  invX |-> InvOf(body.n)],
                 body))

\* dec() through the virtual table; what it subtracts.
Dec(c, n) == IF c = "counter10" THEN Counter10Dec(n) ELSE CounterDec(c, n)
Step(c) == IF c = "counter10" THEN 10 ELSE 1

\* Arguments the client passes to set().
SetArgs == {-20, -10, -5, 0, 10}

----------------------------------------------------------------------------
(* Generic override chains: classes D (most-derived), B1, B2, ... with a     *)
(* function f declared with its override tag in every class.                 *)

GenericNames == <<"D", "B1", "B2", "B3", "B4">>
GenericChain(d) == SubSeq(GenericNames, 1, d)

NoCall ==
    [src |-> "none", obj |-> "", fn |-> "", arg |-> 0, n0 |-> 0, cs |-> <<>>,
     inv |-> <<>>, pre |-> <<>>, xit |-> <<>>, threw |-> FALSE,
     n |-> 0, log |-> <<>>, fail |-> NoFail]

\* The build checks contracts; nothing of part 3 is in progress.
PInit ==
    /\ noConditions = FALSE
    /\ stack = <<>>
    /\ evals = 0
    /\ overflow = FALSE

XInit ==
    /\ cntN = [o \in Objects |-> 0]
    /\ call = NoCall
    /\ terminated = FALSE
    /\ PInit

----------------------------------------------------------------------------
(* Initial state *)

LifeInit(cs) ==
    /\ contract \in cs
    /\ built = [b \in Builders |-> FALSE]
    /\ builderCond = [b \in Builders |-> NoCond]
    /\ guardLife = [g \in Guards |-> "unborn"]
    /\ guardCond = [g \in Guards |-> NoCond]
    /\ guardSrc = [g \in Guards |-> "none"]
    /\ functorLine = [g \in Guards |-> FALSE]
    /\ movedFrom = [g \in Guards |-> FALSE]
    /\ deletedBy = [g \in Guards |-> NoCond]
    /\ fCalls = [g \in Guards |-> 0]
    /\ log = [h \in Holders |-> <<>>]
    /\ bodyState = [h \in Holders |-> "not_run"]

\* No check fails; the default failure handler.
NoFailures ==
    /\ handler = "terminate"
    /\ failing = "none"
    /\ reported = <<>>
    /\ halted = FALSE
    /\ escaped = <<>>
    /\ nullUse = FALSE

Init == LifeInit(Contracts) /\ NoFailures /\ XInit

\* Guards are declared in the order of their names.
NextGuard(g) ==
    /\ guardLife[g] = "unborn"
    /\ \A k \in Guards : k < g => guardLife[k] # "unborn"

\* Invocation b is entered from the body of invocation b - 1 (a nested call),
\* after that one's guard is in place and before its body has ended.
CanEnter(b) ==
    \A k \in Builders : k < b =>
        /\ built[k] /\ builderCond[k] = NoCond
        /\ bodyState[k] = "not_run"

\* The body of invocation h ends after the invocations nested in it are over.
NestedDone(h) ==
    \A k \in Builders : (k > h /\ (built[k] \/ log[k] # <<>>)) =>
        /\ built[k] /\ builderCond[k] = NoCond
        /\ bodyState[k] # "not_run"
        /\ \A g \in Guards : guardCond[g] # k

\* One of the checks s fails in this run.
Fails(s) == \E i \in 1..Len(s) : s[i] = failing

----------------------------------------------------------------------------
(* Actions *)

\* old_ptr<int> old_get = BOOST_CONTRACT_OLDOF(get());  before the guard.
OldOf(b) ==
    /\ ~halted
    /\ contract.oldof
    /\ ~built[b]
    /\ log[b] = <<>>
    /\ CanEnter(b)
    /\ log' = [log EXCEPT ![b] = Append(@, "oldof")]
    /\ UNCHANGED <<fvars, contract, built, builderCond, guardLife, guardCond, guardSrc,
                   functorLine, movedFrom, deletedBy, fCalls, bodyState>>

\* A contract function that runs the entry checks itself, at once.
MakeContractInitializes(b) ==
    /\ ~halted
    /\ ~built[b]
    /\ CanEnter(b)
    /\ contract.oldof => log[b] = <<"oldof">>
    /\ built' = [built EXCEPT ![b] = TRUE]
    /\ builderCond' = [builderCond EXCEPT ![b] = b]
    /\ log' = [log EXCEPT ![b] = @ \o Initialize(contract)]
    /\ UNCHANGED <<fvars, contract, guardLife, guardCond, guardSrc, functorLine,
                   movedFrom, deletedBy, fCalls, bodyState>>

\* boost::contract::function() / constructor() / destructor() /
\* public_function() and the chained calls: a builder owning a new holder.
MakeContract(b) ==
    /\ ~halted
    /\ ~built[b]
    /\ CanEnter(b)
    /\ contract.oldof => log[b] = <<"oldof">>
    /\ built' = [built EXCEPT ![b] = TRUE]
    /\ builderCond' = [builderCond EXCEPT ![b] = b]
    /\ UNCHANGED <<fvars, contract, guardLife, guardCond, guardSrc, functorLine,
                   movedFrom, deletedBy, fCalls, log, bodyState>>

\* check(specify_... const& contract): take the holder, run its entry checks.
\* A check that fails goes to the failure handler; if the handler throws, the
\* exception leaves the constructor and the cond_ member, already constructed,
\* is destroyed on the way out.
CheckFromContract(g, b) ==
    /\ ~halted
    /\ NextGuard(g)
    /\ built[b]
    /\ builderCond[b] # NoCond
    /\ LET h == Released(builderCond[b])
           all == CtorInitialize(contract)
           bad == Fails(all)
           out == CtorPropagates(bad /\ handler = "throw")
       IN
        /\ guardCond' = [guardCond EXCEPT ![g] = IF out THEN NoCond ELSE h]
        /\ builderCond' = [builderCond EXCEPT ![b] = AfterRelease(builderCond[b])]
        /\ log' = [log EXCEPT ![h] = @ \o UpTo(all, failing)
                                      \o (IF out THEN DeleteAfterFailure ELSE <<>>)]
        /\ guardLife' = [guardLife EXCEPT ![g] =
                IF out \/ (bad /\ handler = "terminate") THEN "failed" ELSE "alive"]
        /\ bodyState' = [bodyState EXCEPT ![h] = IF out THEN "skipped" ELSE @]
        /\ reported' = IF bad THEN Append(reported, <<h, FailureOf(failing)>>)
                       ELSE reported
        /\ halted' = (bad /\ handler = "terminate")
        /\ escaped' = IF out THEN Append(escaped, <<"ctor", g>>) ELSE escaped
    /\ guardSrc' = [guardSrc EXCEPT ![g] = "contract"]
    /\ UNCHANGED <<contract, built, functorLine, movedFrom, deletedBy, fCalls,
                   handler, failing, nullUse>>

\* A copy constructor that copies the pointer and leaves the source as it was.
CheckCopyShares(g, other) ==
    /\ ~halted
    /\ NextGuard(g)
    /\ guardLife[other] = "alive"
    /\ guardCond' = [guardCond EXCEPT ![g] = guardCond[other]]
    /\ guardLife' = [guardLife EXCEPT ![g] = "alive"]
    /\ guardSrc' = [guardSrc EXCEPT ![g] = "copy"]
    /\ functorLine' = [functorLine EXCEPT ![g] = functorLine[other]]
    /\ movedFrom' = [movedFrom EXCEPT ![other] = TRUE]
    /\ UNCHANGED <<fvars, contract, built, builderCond, deletedBy, fCalls, log,
                   bodyState>>

\* check(check const& other): move the cond_ pointer to the new guard.
CheckCopy(g, other) ==
    /\ ~halted
    /\ NextGuard(g)
    /\ guardLife[other] = "alive"
    /\ guardCond' = [guardCond EXCEPT ![g] = Released(guardCond[other]),
                                      ![other] = AfterRelease(guardCond[other])]
    /\ guardLife' = [guardLife EXCEPT ![g] = "alive"]
    /\ guardSrc' = [guardSrc EXCEPT ![g] = "copy"]
    /\ functorLine' = [functorLine EXCEPT ![g] = functorLine[other]]
    /\ movedFrom' = [movedFrom EXCEPT ![other] = TRUE]
    /\ UNCHANGED <<fvars, contract, built, builderCond, deletedBy, fCalls, log,
                   bodyState>>

\* check(F const& f): call f now; the guard has no holder.
CheckFromFunctor(g) ==
    /\ ~halted
    /\ NextGuard(g)
    /\ fCalls' = [fCalls EXCEPT ![g] = @ + FunctorCalls]
    /\ guardLife' = [guardLife EXCEPT ![g] = "alive"]
    /\ guardSrc' = [guardSrc EXCEPT ![g] = "functor"]
    /\ functorLine' = [functorLine EXCEPT ![g] = TRUE]
    /\ UNCHANGED <<fvars, contract, built, builderCond, guardCond, movedFrom,
                   deletedBy, log, bodyState>>

\* The body of the contracted function: returns or throws.
Body(h) ==
    /\ ~halted
    /\ bodyState[h] = "not_run"
    /\ \E g \in Guards : guardLife[g] = "alive" /\ guardCond[g] = h
    /\ NestedDone(h)
    /\ \E r \in {"returned", "threw"} :
        bodyState' = [bodyState EXCEPT ![h] = r]
    /\ log' = [log EXCEPT ![h] = Append(@, "body")]
    /\ UNCHANGED <<fvars, contract, built, builderCond, guardLife, guardCond,
                   guardSrc, functorLine, movedFrom, deletedBy, fCalls>>

\* ~check(): an empty guard goes any time, the owner when its scope is left.
\* A failed exit check goes to the failure handler; what the handler throws
\* leaves the destructor, unless the body's exception is on its way already:
\* then the program is terminated.
CheckDestroy(g) ==
    /\ ~halted
    /\ guardLife[g] = "alive"
    /\ guardCond[g] # NoCond => bodyState[guardCond[g]] # "not_run"
    /\ LET h == DtorDeletes(guardCond[g])
           threw == h # NoCond /\ bodyState[h] = "threw"
           all == IF h = NoCond THEN <<>> ELSE ExitChecks(contract, threw)
           bad == Fails(all)
           out == bad /\ handler = "throw" /\ DtorMayThrow /\ ~threw
       IN
        /\ deletedBy' = [deletedBy EXCEPT ![g] = h]
        /\ log' = IF h = NoCond THEN log
                  ELSE [log EXCEPT ![h] = @ \o UpTo(all, failing)]
        /\ reported' = IF bad THEN Append(reported, <<h, FailureOf(failing)>>)
                       ELSE reported
        /\ halted' = (bad /\ ~out)
        /\ escaped' = IF out THEN Append(escaped, <<"dtor", g>>) ELSE escaped
    /\ guardCond' = [guardCond EXCEPT ![g] = NoCond]
    /\ guardLife' = [guardLife EXCEPT ![g] = "dead"]
    /\ UNCHANGED <<contract, built, builderCond, guardSrc, functorLine,
                   movedFrom, fCalls, bodyState, handler, failing, nullUse>>

Next ==
    \/ \E b \in Builders : OldOf(b) /\ UNCHANGED <<xvars, pvars>>
    \/ \E b \in Builders : MakeContract(b) /\ UNCHANGED <<xvars, pvars>>
    \/ \E g \in Guards, b \in Builders :
            CheckFromContract(g, b) /\ UNCHANGED <<xvars, pvars>>
    \/ \E g, other \in Guards : CheckCopy(g, other) /\ UNCHANGED <<xvars, pvars>>
    \/ \E g \in Guards : CheckFromFunctor(g) /\ UNCHANGED <<xvars, pvars>>
    \/ \E h \in Holders : Body(h) /\ UNCHANGED <<xvars, pvars>>
    \/ \E g \in Guards : CheckDestroy(g) /\ UNCHANGED <<xvars, pvars>>

\* Part 1: one contracted function, its builders, holders and guards.
Spec == Init /\ [][Next]_vars

\* A builder whose holder was never initialised runs no check when it goes.
Discarded == <<"discard">>

\* The builder is not used to initialise a guard: the statement ends and the
\* builder, still owning its holder, is destroyed; the function body then
\* runs with no guard in place.
DiscardBuilder(b) ==
    /\ ~halted
    /\ built[b]
    /\ builderCond[b] # NoCond
    /\ builderCond' = [builderCond EXCEPT ![b] = NoCond]
    /\ log' = [log EXCEPT ![b] = @ \o Discarded]
    /\ bodyState' = [bodyState EXCEPT ![b] = "unguarded"]
    /\ UNCHANGED <<fvars, contract, built, guardLife, guardCond, guardSrc,
                   functorLine, movedFrom, deletedBy, fCalls>>

DNext ==
    \/ Next
    \/ \E b \in Builders : DiscardBuilder(b) /\ UNCHANGED <<xvars, pvars>>

\* Part 1 with builders that may be dropped instead of bound.
SpecDiscard == Init /\ [][DNext]_vars

\* check(specify_... const& contract) on a builder whose holder has been taken
\* already: release() returns null. BOOST_CONTRACT_DETAIL_DEBUG(cond_) stops a
\* debug build; otherwise cond_->initialize() goes through the null pointer,
\* which is undefined: the program crashes or goes on with an empty guard.
CheckFromContractAgain(g, b) ==
    /\ ~halted
    /\ NextGuard(g)
    /\ built[b]
    /\ builderCond[b] = NoCond
    /\ nullUse' = (Released(builderCond[b]) = NoCond)
    /\ \E outcome \in {"assertion", "crash", "goes_on"} :
        /\ halted' = (outcome # "goes_on")
        /\ guardLife' = [guardLife EXCEPT ![g] =
                IF outcome = "goes_on" THEN "alive" ELSE "failed"]
    /\ guardSrc' = [guardSrc EXCEPT ![g] = "contract"]
    /\ UNCHANGED <<contract, built, builderCond, guardCond, functorLine,
                   movedFrom, deletedBy, fCalls, log, bodyState, handler,
                   failing, reported, escaped>>

RNext ==
    \/ Next
    \/ \E g \in Guards, b \in Builders :
            CheckFromContractAgain(g, b) /\ UNCHANGED <<xvars, pvars>>

\* Part 1 with builders that may be bound to a second guard.
SpecRebind == Init /\ [][RNext]_vars

\* The checks a contract can run.
ChecksOf(c) ==
    (Range(Initialize(c)) \cup Range(ExitChecks(c, TRUE))
        \cup Range(ExitChecks(c, FALSE))) \cap Checks

\* The contracts tried with a failing check: old values both ways or not at
\* all, both exit predicates or none, both kinds of invariant or none.
FailContracts ==
    {c \in Contracts :
        c.oldof = c.old /\ c.except = c.post /\ c.sinv = c.inv}

\* Part 1 with one check of the contract failing whenever it is evaluated,
\* under the default handler or under one that throws.
FailInit ==
    /\ LifeInit(FailContracts)
    /\ handler \in {"terminate", "throw"}
    /\ failing \in ChecksOf(contract)
    /\ reported = <<>>
    /\ halted = FALSE
    /\ escaped = <<>>
    /\ nullUse = FALSE
    /\ XInit

SpecFail == FailInit /\ [][Next]_vars

----------------------------------------------------------------------------
(* Part 2: the client's calls *)

\* What the client sees of an example call.
ExampleCall(o, fn, a, r) ==
    [src |-> "example", obj |-> o, fn |-> fn, arg |-> a, n0 |-> cntN[o],
     cs |-> Chain(DynType(o), fn), inv |-> <<>>, pre |-> <<>>, xit |-> <<>>,
     threw |-> FALSE, n |-> r.n, log |-> r.log, fail |-> r.fail]

Finish(o, c) ==
    /\ call.src \in {"none", "example"}
    /\ call' = c
    /\ cntN' = [cntN EXCEPT ![o] = c.n]
    /\ terminated' = (c.fail # NoFail)
    /\ UNCHANGED <<lvars, fvars, pvars>>

\* cnt.get() / b.get()
CallGet(o) ==
    /\ ~terminated
    /\ Finish(o, ExampleCall(o, "get", 0, Get(DynType(o), cntN[o])))

\* cnt.dec() / b.dec(), while the subtraction stays in the range of int.
CallDec(o) ==
    /\ ~terminated
    /\ cntN[o] - Step(DynType(o)) >= IntMin
    /\ Finish(o, ExampleCall(o, "dec", 0, Dec(DynType(o), cntN[o])))

\* cnt.set(a) / b.set(a)
CallSet(o, a) ==
    /\ ~terminated
    /\ a >= IntMin
    /\ Finish(o, ExampleCall(o, "set", a, Set(DynType(o), cntN[o], a)))

\* A call of f through a reference to the root class of a generic chain of
\* depth d, every predicate's outcome chosen freely (a program of its own,
\* without the counters).
CallGeneric(d, inv, pre, xit, threw) ==
    /\ ~terminated
    /\ call.src = "none"
    /\ LET cs == GenericChain(d)
           r == Guarded([cs |-> cs, fn |-> "f", n0 |-> 0, threw |-> threw,
                         invE |-> [c \in Range(cs) |-> PF(inv[c] # "entry_fail")],
                         pre |-> pre, xit |-> xit,
                         invX |-> [c \in Range(cs) |-> PF(inv[c] # "exit_fail")]],
                        NoBody(0))
       IN  /\ call' = [src |-> "generic", obj |-> "", fn |-> "f", arg |-> 0,
                       n0 |-> 0, cs |-> cs, inv |-> inv, pre |-> pre,
                       xit |-> xit, threw |-> threw, n |-> 0, log |-> r.log,
                       fail |-> r.fail]
           /\ terminated' = (r.fail # NoFail)
    /\ UNCHANGED <<cntN, lvars, fvars, pvars>>

VNext ==
    \/ \E o \in Objects : CallGet(o)
    \/ \E o \in Objects : CallDec(o)
    \/ \E o \in Objects, a \in SetArgs : CallSet(o, a)
    \/ /\ call.src = "none"
       /\ \E d \in 1..MaxDepth :
        \E inv \in [Range(GenericChain(d)) -> {"pass", "entry_fail", "exit_fail"}],
           pre \in [Range(GenericChain(d)) -> {"none", "pass", "fail"}],
           xit \in [Range(GenericChain(d)) -> {"none", "pass", "fail"}],
           threw \in BOOLEAN :
            CallGeneric(d, inv, pre, xit, threw)

\* counter::set(a) called without the virtual table (b.counter::set(a); main is
\* a friend of counter): the way a counter10 gets a value off the tens.
CallCounterSet(o, a) ==
    /\ ~terminated
    /\ a >= IntMin
    /\ Finish(o, ExampleCall(o, "counter::set", a, CounterSet(cntN[o], a)))

\* Arguments of those calls.
BaseSetArgs == {-1, -5, -10}

BNext ==
    \/ VNext
    \/ \E o \in Objects, a \in BaseSetArgs : CallCounterSet(o, a)

----------------------------------------------------------------------------
(* The build without conditions: BOOST_CONTRACT_NO_CONDITIONS *)

\* The function bodies of the example, which are all that is left of it.
BodyGet(c, n) == n
BodySet(c, n, a) == a
BodyDec(c, n) == BodySet(c, n, BodyGet(c, n) - Step(c))

\* boost::contract::check c = boost::contract::public_function(...)...;
\* the contract function has no holder to make, and the guard's constructor is
\* check(specify_... const& contract) {}: there is no cond_ member.
StrippedCheckFromContract(g, b) ==
    /\ noConditions
    /\ NextGuard(g)
    /\ ~built[b]
    /\ CanEnter(b)
    /\ built' = [built EXCEPT ![b] = TRUE]
    /\ log' = [log EXCEPT ![b] = @ \o StrippedCtor(contract)]
    /\ guardLife' = [guardLife EXCEPT ![g] = "alive"]
    /\ guardSrc' = [guardSrc EXCEPT ![g] = "contract"]
    /\ UNCHANGED <<fvars, contract, builderCond, guardCond, functorLine,
                   movedFrom, deletedBy, fCalls, bodyState>>

\* check(check const& other) {}: nothing to move.
StrippedCheckCopy(g, other) ==
    /\ noConditions
    /\ NextGuard(g)
    /\ guardLife[other] = "alive"
    /\ guardLife' = [guardLife EXCEPT ![g] = "alive"]
    /\ guardSrc' = [guardSrc EXCEPT ![g] = "copy"]
    /\ movedFrom' = [movedFrom EXCEPT ![other] = TRUE]
    /\ UNCHANGED <<fvars, contract, built, builderCond, guardCond, functorLine,
                   deletedBy, fCalls, log, bodyState>>

\* The body of the function, after its guard has been declared.
StrippedBody(h) ==
    /\ noConditions
    /\ built[h]
    /\ bodyState[h] = "not_run"
    /\ \E g \in Guards : guardLife[g] = "alive" /\ guardSrc[g] = "contract"
    /\ NestedDone(h)
    /\ \E r \in {"returned", "threw"} :
        bodyState' = [bodyState EXCEPT ![h] = r]
    /\ log' = [log EXCEPT ![h] = Append(@, "body")]
    /\ UNCHANGED <<fvars, contract, built, builderCond, guardLife, guardCond,
                   guardSrc, functorLine, movedFrom, deletedBy, fCalls>>

\* ~check() {}: there is no cond_ member to destroy.
StrippedCheckDestroy(g) ==
    /\ noConditions
    /\ guardLife[g] = "alive"
    /\ guardLife' = [guardLife EXCEPT ![g] = "dead"]
    /\ UNCHANGED <<fvars, contract, built, builderCond, guardCond, guardSrc,
                   functorLine, movedFrom, deletedBy, fCalls, log, bodyState>>

\* A call of the example in this build: the body and nothing else. The
\* client gets to it when the guarded functions of part 1 have returned.
StrippedFinish(o, fn, a, n) ==
    /\ noConditions
    /\ \A g \in Guards : guardLife[g] = "dead"
    /\ \A h \in Holders : bodyState[h] = "returned"
    /\ call' = [NoCall EXCEPT !.src = "stripped", !.obj = o, !.fn = fn,
                              !.arg = a, !.n0 = cntN[o], !.n = n]
    /\ cntN' = [cntN EXCEPT ![o] = n]
    /\ UNCHANGED <<terminated, lvars, fvars, pvars>>

StrippedGet(o) == StrippedFinish(o, "get", 0, BodyGet(DynType(o), cntN[o]))

StrippedDec(o) ==
    /\ cntN[o] - Step(DynType(o)) >= IntMin
    /\ StrippedFinish(o, "dec", 0, BodyDec(DynType(o), cntN[o]))

StrippedSet(o, a) ==
    /\ a >= IntMin
    /\ StrippedFinish(o, "set", a, BodySet(DynType(o), cntN[o], a))

SNext ==
    \/ \E g \in Guards, b \in Builders :
            StrippedCheckFromContract(g, b) /\ UNCHANGED <<xvars, pvars>>
    \/ \E g, other \in Guards :
            StrippedCheckCopy(g, other) /\ UNCHANGED <<xvars, pvars>>
    \/ \E h \in Holders : StrippedBody(h) /\ UNCHANGED <<xvars, pvars>>
    \/ \E g \in Guards : StrippedCheckDestroy(g) /\ UNCHANGED <<xvars, pvars>>
    \/ \E o \in Objects : StrippedGet(o)
    \/ \E o \in Objects : StrippedDec(o)
    \/ \E o \in Objects, a \in SetArgs : StrippedSet(o, a)

\* A public function whose contract has every element.
FullContract ==
    [kind |-> "public_function", pre |-> TRUE, old |-> TRUE, post |-> TRUE,
     except |-> TRUE, inv |-> TRUE, sinv |-> TRUE, oldof |-> FALSE]

SInit ==
    /\ LifeInit({FullContract})
    /\ NoFailures
    /\ cntN = [o \in Objects |-> 0]
    /\ call = NoCall
    /\ terminated = FALSE
    /\ noConditions = TRUE
    /\ stack = <<>>
    /\ evals = 0
    /\ overflow = FALSE

\* The program built without conditions: one guarded function, then the
\* client's calls of the counters.
SpecStripped == SInit /\ [][SNext]_vars

----------------------------------------------------------------------------
(* Part 3: predicates that call contracted functions. A call of the example *)
(* is run step by step on a stack of frames: the frame of a call holds the   *)
(* checks and calls it still has to make, the frame of a predicate the calls *)
(* the predicate makes. The values play no part here: every check passes.    *)

\* The deepest stack the model follows.
MaxStack == 8

\* A check is being executed: a predicate's frame is on the stack.
Checking == \E i \in 1..Len(stack) : stack[i].kind = "pred"

PredItem(what, c, fn) == <<"pred", what, c, fn>>
\* mode: "virtual", or "counter" for the qualified calls counter::get() and
\* counter::set(n).
CallItem(fn, mode) == <<"call", fn, mode, "">>

\* The class invariants one call of c::fn checks, at entry and again at exit:
\* none for boost::contract::function().
InvItems(c, fn) ==
    IF c = "counter" /\ fn \in {"dec", "set"} THEN <<>>
    ELSE [i \in 1..Len(Chain(c, fn)) |-> PredItem("inv", Chain(c, fn)[i], fn)]

\* The calls in the body of get: none in counter::get (return result = n_),
\* counter::get() in counter10::get.
GetBodyCallsItself(c) ==
    IF c = "counter10" THEN <<CallItem("get", "virtual")>> ELSE <<>>
GetBodyCalls(c) ==
    IF c = "counter10" THEN <<CallItem("get", "counter")>> ELSE <<>>

\* The calls in the bodies: set(get() - 1), set(get() - 10); n_ = n,
\* counter::set(n).
BodyCalls(c, fn) ==
    CASE fn = "get" -> GetBodyCalls(c)
      [] fn = "dec" -> <<CallItem("get", "virtual"), CallItem("set", "virtual")>>
      [] OTHER -> IF c = "counter10" THEN <<CallItem("set", "counter")>> ELSE <<>>

\* What a call of c::fn does, in order: the OLDOF expression of dec, the
\* entry invariants, the precondition, the body, the postcondition, the exit
\* invariants. While a check is being executed the contract of a nested call
\* is not checked: only its body runs.
Program(c, fn, checking) ==
    IF checking THEN BodyCalls(c, fn)
    ELSE (IF fn = "dec" THEN <<CallItem("get", "virtual")>> ELSE <<>>)
            \o InvItems(c, fn)
            \o (IF fn = "get" THEN <<>> ELSE <<PredItem("pre", c, fn)>>)
            \o BodyCalls(c, fn)
            \o <<PredItem("post", IF fn = "get" THEN "counter" ELSE c, fn)>>
            \o InvItems(c, fn)

\* The calls a predicate makes: invariant() calls get(); the precondition and
\* the postcondition of dec and the postcondition of set call get(); the
\* postcondition of get and the precondition of set call nothing.
PredCalls(what, fn) ==
    IF what = "inv" \/ (what = "pre" /\ fn = "dec")
            \/ (what = "post" /\ fn \in {"dec", "set"})
    THEN <<CallItem("get", "virtual")>>
    ELSE <<>>

Frame(kind, what, c, fn, dyn, todo) ==
    [kind |-> kind, what |-> what, cls |-> c, fn |-> fn, dyn |-> dyn,
     todo |-> todo]

Top == stack[Len(stack)]

\* Push frame f for the first item of the top frame.
Push(f) ==
    IF Len(stack) < MaxStack
    THEN /\ stack' = [stack EXCEPT ![Len(stack)].todo = Tail(@)] \o <<f>>
         /\ overflow' = overflow
    ELSE /\ overflow' = TRUE
         /\ stack' = stack

\* The client calls cnt.fn() or b.fn().
StartCall(o, fn) ==
    /\ stack = <<>>
    /\ ~overflow
    /\ stack' = <<Frame("call", "", DynType(o), fn, DynType(o),
                        Program(DynType(o), fn, FALSE))>>
    /\ evals' = 0
    /\ UNCHANGED <<overflow, noConditions, lvars, xvars, fvars>>

\* The next thing to do is a check: its predicate is evaluated.
EvalPred ==
    /\ stack # <<>> /\ ~overflow
    /\ Top.todo # <<>>
    /\ Head(Top.todo)[1] = "pred"
    /\ LET it == Head(Top.todo) IN
        Push(Frame("pred", it[2], it[3], it[4], Top.dyn, PredCalls(it[2], it[4])))
    /\ evals' = evals + 1
    /\ UNCHANGED <<noConditions, lvars, xvars, fvars>>

\* The next thing to do is a call: of the dynamic type's function if it is
\* virtual, of counter's if it is qualified.
EnterCall ==
    /\ stack # <<>> /\ ~overflow
    /\ Top.todo # <<>>
    /\ Head(Top.todo)[1] = "call"
    /\ LET it == Head(Top.todo)
           c == IF it[3] = "virtual" THEN Top.dyn ELSE "counter"
       IN Push(Frame("call", "", c, it[2], Top.dyn, Program(c, it[2], Checking)))
    /\ UNCHANGED <<evals, noConditions, lvars, xvars, fvars>>

\* The call or predicate on top has nothing left to do: it returns.
Return ==
    /\ stack # <<>> /\ ~overflow
    /\ Top.todo = <<>>
    /\ stack' = SubSeq(stack, 1, Len(stack) - 1)
    /\ UNCHANGED <<evals, overflow, noConditions, lvars, xvars, fvars>>

PNext ==
    \/ \E o \in Objects, fn \in {"get", "dec", "set"} : StartCall(o, fn)
    \/ EvalPred
    \/ EnterCall
    \/ Return

\* No guard activity of part 1 here: the contract is the plain function one.
PlainContract ==
    [kind |-> "function", pre |-> FALSE, old |-> FALSE, post |-> FALSE,
     except |-> FALSE, inv |-> FALSE, sinv |-> FALSE, oldof |-> FALSE]

\* Part 2: the client calls the counters and generic override chains.
VInit == LifeInit({PlainContract}) /\ NoFailures /\ XInit

SpecVirtual == VInit /\ [][VNext]_vars

\* Part 2 with the counters also set past their own set(): values off the tens.
SpecBoundary == VInit /\ [][BNext]_vars

\* Part 3: a call that has been started goes on until it returns.
SpecReentrant ==
    /\ VInit
    /\ [][PNext]_vars
    /\ WF_vars(EvalPred \/ EnterCall \/ Return)

----------------------------------------------------------------------------
(* Reading a log *)

Has(s, e) == \E i \in 1..Len(s) : s[i] = e
Count(s, e) == Cardinality({i \in 1..Len(s) : s[i] = e})
Pos(s, e) == IF Has(s, e) THEN CHOOSE i \in 1..Len(s) :
                                  s[i] = e /\ \A j \in 1..(i - 1) : s[j] # e
             ELSE 0
\* Where both happened, a happened first.
Before(s, a, b) == (Has(s, a) /\ Has(s, b)) => Pos(s, a) < Pos(s, b)

\* Holder h has been handed to a guard / has been deleted.
Bound(h) == built[h] /\ builderCond[h] = NoCond
Owners(h) == {g \in Guards : guardLife[g] = "alive" /\ guardCond[g] = h}
Deleted(h) == Has(log[h], "delete")
Threw(h) == bodyState[h] = "threw"

----------------------------------------------------------------------------
(* C1 *)

\* C1 (as amended): the constructor of a guard made from a builder runs, in
\* this order and all before the body, the entry invariant check (if it
\* applies), the precondition functor (if present) and the old-value functor
\* attached to the builder (if present); all of them have run as soon as the
\* holder is bound to a guard.
C1_EntryOrder ==
    \A h \in Holders :
        LET s == log[h] IN
        /\ Before(s, "entry_inv", "pre")
        /\ Before(s, "pre", "old")
        /\ Before(s, "entry_inv", "old")
        /\ \A e \in {"entry_inv", "pre", "old"} : Before(s, e, "body")
        /\ Bound(h) =>
            /\ Has(s, "initialize")
            /\ InvAtEntry(contract) <=> Has(s, "entry_inv")
            /\ contract.pre <=> Has(s, "pre")
            /\ contract.old <=> Has(s, "old")
        /\ ~Bound(h) => \A e \in {"entry_inv", "pre", "old", "body"} : ~Has(s, e)

\* A public function with invariant, precondition and old-value functor has
\* run its body.
C1_Witness ==
    \E h \in Holders :
        /\ Has(log[h], "entry_inv") /\ Has(log[h], "pre") /\ Has(log[h], "old")
        /\ Has(log[h], "body")

\* C1 (as stated): no old value is captured before the precondition has been
\* evaluated. An old value initialised with OLDOF at its declaration is.
C1_OldNeverBeforePre ==
    \A h \in Holders :
        (contract.pre /\ (Has(log[h], "oldof") \/ Has(log[h], "old")))
            => /\ Has(log[h], "pre")
               /\ Before(log[h], "pre", "oldof")
               /\ Before(log[h], "pre", "old")

----------------------------------------------------------------------------
(* C2 *)

\* C2: when the guard that holds the holder is destroyed, the postcondition
\* is evaluated iff the body did not throw, the exception guarantee iff it
\* threw; never both, and no postcondition while the body's exception
\* propagates. Before that destruction neither is evaluated.
C2_PostXorExcept ==
    \A h \in Holders :
        LET s == log[h] IN
        /\ Has(s, "post") <=> (Deleted(h) /\ contract.post /\ ~Threw(h))
        /\ Has(s, "except") <=> (Deleted(h) /\ contract.except /\ Threw(h))
        /\ ~(Has(s, "post") /\ Has(s, "except"))
        /\ (Bound(h) /\ Owners(h) = {} ) => Deleted(h)

\* The body threw and the exception guarantee was evaluated at destruction.
C2_Witness ==
    \E h \in Holders :
        /\ contract.post /\ contract.except
        /\ Threw(h) /\ Has(log[h], "except") /\ ~Has(log[h], "post")

----------------------------------------------------------------------------
(* C3 *)

----------------------------------------------------------------------------
(* C4 *)

----------------------------------------------------------------------------
(* C5 *)

\* C5: a destructor contract checks the (non-static) class invariant at entry
\* on every call, and at exit iff the body threw.
C5_Destructor ==
    (contract.kind = "destructor" /\ contract.inv) =>
        \A h \in Holders :
            LET s == log[h] IN
            /\ Bound(h) => Has(s, "entry_inv")
            /\ Before(s, "entry_inv", "body")
            /\ Has(s, "exit_inv") <=> (Deleted(h) /\ Threw(h))
            /\ (Bound(h) /\ Owners(h) = {}) => Deleted(h)

\* A destructor whose body threw, after its guard is gone.
C5_Witness ==
    /\ contract.kind = "destructor"
    /\ \E h \in Holders :
        Threw(h) /\ Has(log[h], "entry_inv") /\ Has(log[h], "exit_inv")

----------------------------------------------------------------------------
(* C6 *)

\* The objects (builders and live guards) whose cond_ points to h.
Holds(h) ==
    {<<"builder", b>> : b \in {b \in Builders : builderCond[b] = h}}
        \cup {<<"guard", g>> : g \in {g \in Guards : guardCond[g] = h}}

\* C6: a copy moves the holder to the new guard and leaves the source empty:
\* every holder is owned by at most one object, by exactly one until it is
\* deleted, a copied-from guard stays empty and its destruction checks
\* nothing.
C6_CopyTransfers ==
    /\ \A h \in Holders : Cardinality(Holds(h)) <= 1
    /\ \A h \in Holders : (built[h] /\ ~Deleted(h)) => Cardinality(Holds(h)) = 1
    /\ \A g \in Guards : movedFrom[g] =>
        /\ guardCond[g] = NoCond
        /\ deletedBy[g] = NoCond

\* A guard that owned a holder was copied and destroyed; the copy owns it.
C6_Witness ==
    \E g, k \in Guards :
        /\ guardSrc[g] = "contract" /\ movedFrom[g] /\ guardLife[g] = "dead"
        /\ guardSrc[k] = "copy" /\ guardCond[k] # NoCond

----------------------------------------------------------------------------
(* C7 *)

EntryEvents == {"initialize", "entry_static_inv", "entry_inv", "pre", "old"}
ExitEvents == {"delete", "post", "except", "exit_static_inv", "exit_inv"}

\* C7: however often the guard is copied, the holder's entry checks run once,
\* in the construction from the builder, and once every guard involved is
\* destroyed its exit checks have run once, in the destruction of the last
\* owner.
C7_OnceEach ==
    \A h \in Holders :
        LET s == log[h] IN
        /\ \A e \in EntryEvents \cup ExitEvents : Count(s, e) <= 1
        /\ Bound(h) => Count(s, "initialize") = 1
        /\ (Bound(h) /\ Owners(h) = {}) =>
            /\ Count(s, "delete") = 1
            /\ Cardinality({g \in Guards : deletedBy[g] = h}) = 1
            /\ \A g \in Guards : deletedBy[g] = h => ~movedFrom[g]
        /\ \A g \in Guards :
            (guardSrc[g] = "copy" /\ guardCond[g] = h) => Count(s, "initialize") = 1

\* The holder went through two copies and the last copy's destruction.
C7_Witness ==
    \E h \in Holders : \E g \in Guards :
        /\ Cardinality({k \in Guards : movedFrom[k]}) >= 2
        /\ guardSrc[g] = "copy" /\ deletedBy[g] = h
        /\ Deleted(h)

----------------------------------------------------------------------------
(* C8 *)

\* C8: a guard made from a functor has called it exactly once when its
\* constructor returns; it and its copies hold no holder, and their
\* destruction checks nothing.
C8_Functor ==
    \A g \in Guards :
        /\ guardSrc[g] = "functor" => fCalls[g] = 1
        /\ guardSrc[g] # "functor" => fCalls[g] = 0
        /\ functorLine[g] => (guardCond[g] = NoCond /\ deletedBy[g] = NoCond)

\* A functor guard and a copy of it have both been destroyed.
C8_Witness ==
    \E g, k \in Guards :
        /\ guardSrc[g] = "functor" /\ guardLife[g] = "dead"
        /\ guardSrc[k] = "copy" /\ functorLine[k] /\ guardLife[k] = "dead"

----------------------------------------------------------------------------
(* C9 *)

\* Of a generic call: the entry invariants all passed / the combined
\* precondition is satisfied / the body was reached.
GenEntryOk == \A c \in Range(call.cs) : call.inv[c] # "entry_fail"
GenPreOk == \E c \in Range(call.cs) : call.pre[c] # "fail"
GenBody == Has(call.log, Ev("body", "D", "f"))
\* The first class of the chain whose precondition does not fail.
GenFirstOk ==
    IF GenPreOk
    THEN CHOOSE i \in 1..Len(call.cs) :
            /\ call.pre[call.cs[i]] # "fail"
            /\ \A j \in 1..(i - 1) : call.pre[call.cs[j]] = "fail"
    ELSE Len(call.cs) + 1

\* In a chain of functions declared with their override tag the combined
\* precondition is the OR of the chain's preconditions, short-circuit.
C9_Generic ==
    (call.src = "generic") =>
        /\ (call.fail = Ev("pre", "D", "f"))
            <=> (GenEntryOk /\ \A c \in Range(call.cs) : call.pre[c] = "fail")
        /\ (GenEntryOk /\ GenPreOk) => GenBody
        /\ \A i \in 1..Len(call.cs) :
            Has(call.log, Ev("pre", call.cs[i], "f"))
                <=> /\ GenEntryOk
                    /\ i <= GenFirstOk
                    /\ call.pre[call.cs[i]] # "none"

\* C9 (as amended): for an override declared with its override tag the
\* combined precondition is satisfied if the derived or any base precondition
\* holds, and a violation is reported only when all of the chain fail.
\* counter10::set, declared without a tag, checks only its own precondition:
\* b.set(a) reports a violation iff a is no multiple of ten, whatever
\* counter::set's precondition a <= 0 says, and counter::set's precondition
\* is checked after that, by the call of counter::set in the body.
C9_PreOr ==
    /\ C9_Generic
    /\ (call.src = "example" /\ call.obj = "cnt10" /\ call.fn = "set") =>
        /\ (call.fail = Ev("pre", "counter10", "set")) <=> (call.arg % 10 # 0)
        /\ Has(call.log, Ev("pre", "counter", "set")) <=> (call.arg % 10 = 0)
        /\ (call.fail = Ev("pre", "counter", "set"))
            <=> (call.arg % 10 = 0 /\ call.arg > 0)
        /\ (call.fail = NoFail) <=> (call.arg % 10 = 0 /\ call.arg <= 0)
    /\ (call.src = "example" /\ call.obj = "cnt10" /\ call.fn = "dec") =>
        /\ Has(call.log, Ev("pre", "counter10", "dec"))
        /\ ~Has(call.log, Ev("pre", "counter", "dec"))

\* A chain of three: the precondition of D and of B1 fail, that of B2 holds,
\* and the body runs.
C9_Witness ==
    /\ call.src = "generic" /\ Len(call.cs) = 3
    /\ call.pre["D"] = "fail" /\ call.pre["B1"] = "fail" /\ call.pre["B2"] = "pass"
    /\ GenBody

\* C9 (as stated): for every override, counter10::set included, a
\* precondition violation is reported only when the derived and the base
\* precondition both fail.
C9_PreOrEveryOverride ==
    /\ C9_Generic
    /\ (call.src = "example" /\ call.obj = "cnt10" /\ call.fn = "set") =>
        ((call.fail = Ev("pre", "counter10", "set"))
            => (call.arg % 10 # 0 /\ ~(call.arg <= 0)))

----------------------------------------------------------------------------
(* C10 *)

\* In a chain of functions declared with their override tag: the invariants
\* of every class are checked at entry and at exit and the postconditions of
\* every class after the body, each up to the first failure, and the call
\* succeeds only if all of them pass.
C10_Generic ==
    (call.src = "generic") =>
        LET cs == call.cs
            xk == IF call.threw THEN "except" ELSE "post"
            XitOk == \A c \in Range(cs) : call.xit[c] # "fail"
        IN
        /\ \A i \in 1..Len(cs) :
            Has(call.log, Ev("entry_inv", cs[i], "f"))
                <=> \A j \in 1..(i - 1) : call.inv[cs[j]] # "entry_fail"
        /\ \A i \in 1..Len(cs) :
            Has(call.log, Ev(xk, cs[i], "f"))
                <=> /\ GenBody
                    /\ call.xit[cs[i]] # "none"
                    /\ \A j \in 1..(i - 1) : call.xit[cs[j]] # "fail"
        /\ \A i \in 1..Len(cs) :
            Has(call.log, Ev("exit_inv", cs[i], "f"))
                <=> /\ GenBody /\ XitOk
                    /\ \A j \in 1..(i - 1) : call.inv[cs[j]] # "exit_fail"
        /\ (call.fail = Ev("entry_inv", "D", "f")) <=> ~GenEntryOk
        /\ (call.fail = Ev(xk, "D", "f")) <=> (GenBody /\ ~XitOk)
        /\ (call.fail = Ev("exit_inv", "D", "f"))
            <=> (GenBody /\ XitOk /\ \E c \in Range(cs) : call.inv[c] = "exit_fail")
        /\ (call.fail = NoFail)
            <=> /\ GenPreOk /\ XitOk
                /\ \A c \in Range(cs) : call.inv[c] = "pass"
        /\ \A i \in 1..Len(call.log) : \A j \in 1..Len(call.log) :
            (call.log[i][1] = xk /\ call.log[j][1] = "exit_inv") => i < j

\* C10 (as amended): for an override declared with its override tag, as
\* counter10::get, the postconditions of the derived class and of every
\* ancestor are evaluated after the body and must all pass, and the
\* invariants of every class of the chain are checked at entry and at exit,
\* without the derived contract repeating them. counter10::dec, declared
\* without a tag, checks its own postcondition and invariant only:
\* counter::dec's postcondition is not evaluated and b.dec() subtracts ten.
C10_PostInvAnd ==
    /\ C10_Generic
    /\ (call.src = "example" /\ call.obj = "cnt10" /\ call.fn = "get") =>
        /\ call.fail = NoFail
        /\ call.cs = <<"counter10", "counter">>
        /\ \A c \in Classes :
            /\ Pos(call.log, Ev("entry_inv", c, "get"))
                    < Pos(call.log, Ev("body", "counter10", "get"))
            /\ Has(call.log, Ev("entry_inv", c, "get"))
            /\ Has(call.log, Ev("exit_inv", c, "get"))
        /\ Count(call.log, Ev("entry_inv", "counter", "get")) = 2
        /\ Count(call.log, Ev("post", "counter", "get")) = 2
        /\ Count(call.log, Ev("exit_inv", "counter", "get")) = 2
    /\ (call.src = "example" /\ call.obj = "cnt10" /\ call.fn = "dec") =>
        /\ call.fail = NoFail
        /\ call.n = call.n0 - 10
        /\ Has(call.log, Ev("post", "counter10", "dec"))
        /\ ~Has(call.log, Ev("post", "counter", "dec"))
        /\ Has(call.log, Ev("exit_inv", "counter10", "dec"))

\* b.get() on the counter10 has returned after the checks of both classes.
C10_Witness ==
    /\ call.src = "example" /\ call.obj = "cnt10" /\ call.fn = "get"
    /\ call.fail = NoFail /\ call.n0 = -10
    /\ Has(call.log, Ev("post", "counter", "get"))
    /\ Has(call.log, Ev("exit_inv", "counter10", "get"))
    /\ Has(call.log, Ev("exit_inv", "counter", "get"))

\* C10 (as stated): after the body of every overriding function called
\* through a base reference, counter10::dec included, the postcondition of
\* every ancestor is evaluated too.
C10_PostAndEveryOverride ==
    /\ C10_Generic
    /\ (call.src = "example" /\ call.obj = "cnt10" /\ call.fn \in {"dec", "get"}
            /\ Has(call.log, Ev("body", "counter10", call.fn))) =>
        /\ Has(call.log, Ev("post", "counter", call.fn))
        /\ \A c \in Classes : Has(call.log, Ev("exit_inv", c, call.fn))

----------------------------------------------------------------------------
(* C11 *)

\* C11: from 0, while the value stays in the range of int, every
\* counter::dec() lowers the value by exactly 1 and every counter10::dec()
\* through the base reference by exactly 10, no check fails, and afterwards
\* value <= 0 holds, for the counter10 also value % 10 = 0.
C11_DecSequence ==
    (call.src = "example" /\ call.fn = "dec") =>
        /\ call.fail = NoFail
        /\ ~terminated
        /\ call.obj = "cnt" => call.n = call.n0 - 1
        /\ call.obj = "cnt10" => (call.n = call.n0 - 10 /\ call.n % 10 = 0)
        /\ cntN[call.obj] = call.n
        /\ call.n <= 0
        /\ call.n >= IntMin

\* cnt.dec() has been called twice, b.dec() twice, the second just now.
C11_Witness ==
    /\ call.src = "example" /\ call.fn = "dec" /\ call.obj = "cnt10"
    /\ call.n0 = -10 /\ cntN["cnt10"] = -20 /\ cntN["cnt"] = -2

----------------------------------------------------------------------------
(* C12 *)

\* C12 (as amended): b.dec() on a counter10 whose value is no multiple of ten
\* is stopped by counter10's class invariant get() % 10 == 0, which fails at
\* the entry of the get() that captures the old value; the body of dec() does
\* not run and the value is unchanged. No precondition is reported:
\* the precondition of counter10::dec is get() + 10 >= INT_MIN and is not even
\* reached, and it would hold, as would counter::dec's.
C12_DecOffTen ==
    (call.src = "example" /\ call.obj = "cnt10" /\ call.fn = "dec"
        /\ call.n0 % 10 # 0) =>
        /\ call.fail = Ev("entry_inv", "counter10", "get")
        /\ terminated
        /\ ~Has(call.log, Ev("pre", "counter10", "dec"))
        /\ ~Has(call.log, Ev("body", "counter10", "dec"))
        /\ call.n = call.n0
        /\ call.n0 + 10 >= IntMin /\ call.n0 + 1 >= IntMin

\* b.dec() was called on a counter10 holding -1.
C12_Witness ==
    /\ call.src = "example" /\ call.obj = "cnt10" /\ call.fn = "dec"
    /\ call.n0 = -1 /\ terminated

\* C12 (as stated): that call reports the precondition violation of
\* counter10::dec.
C12_DecPreViolation ==
    (call.src = "example" /\ call.obj = "cnt10" /\ call.fn = "dec"
        /\ call.n0 % 10 # 0) =>
        call.fail = Ev("pre", "counter10", "dec")

----------------------------------------------------------------------------
(* C17 *)

\* C17: where the class has static invariants, they are checked at the entry
\* and at the exit of every guarded scope of a constructor, destructor or
\* public function: also at constructor entry, at destructor exit after a
\* normal return, and at exit when the body threw. Once each, around the body.
C17_StaticInvariants ==
    (contract.sinv /\ contract.kind # "function") =>
        \A h \in Holders :
            LET s == log[h] IN
            /\ Bound(h) <=> Has(s, "entry_static_inv")
            /\ Deleted(h) <=> Has(s, "exit_static_inv")
            /\ Before(s, "entry_static_inv", "body")
            /\ Before(s, "body", "exit_static_inv")
            /\ Count(s, "entry_static_inv") <= 1
            /\ Count(s, "exit_static_inv") <= 1
            /\ (Bound(h) /\ Owners(h) = {}) => Deleted(h)

\* A destructor that returned and a scope whose body threw, both with the
\* static invariant checked on the way in and on the way out; the class has a
\* non-static invariant too, which that destructor exit leaves alone.
C17_Witness ==
    /\ contract.kind = "destructor" /\ contract.sinv /\ contract.inv
    /\ \E h1, h2 \in Holders :
        /\ bodyState[h1] = "returned" /\ Threw(h2)
        /\ \A h \in {h1, h2} :
            Has(log[h], "entry_static_inv") /\ Has(log[h], "exit_static_inv")
        /\ ~Has(log[h1], "exit_inv")

----------------------------------------------------------------------------
(* C18 *)

\* The states of one guard.
GuardState(g) ==
    CASE guardLife[g] = "unborn" -> "Unbound"
      [] guardCond[g] # NoCond -> "BoundCheckedEntry"
      [] deletedBy[g] # NoCond -> "BoundCheckedExit"
      [] movedFrom[g] -> "EmptyMovedFrom"
      [] OTHER -> "Empty"

GuardMoves ==
    { <<"Unbound", "BoundCheckedEntry">>,
      <<"BoundCheckedEntry", "BoundCheckedExit">>,
      <<"BoundCheckedEntry", "EmptyMovedFrom">> }

\* C18: a guard made from a builder goes from Unbound to Bound-Checked-Entry
\* within its construction (the holder's entry checks run in that step, the
\* pending state is inside it), then either to Bound-Checked-Exit when it is
\* destroyed or to Empty-Moved-From when it is copied from, and stays there.
\* No guard, however made, gets a holder after its construction or swaps the
\* one it has, and a holder deleted by a guard has had its entry checks.
C18_GuardStates ==
    [][\A g \in Guards :
        /\ guardSrc'[g] = "contract" =>
            /\ GuardState(g)' = GuardState(g)
                    \/ <<GuardState(g), GuardState(g)'>> \in GuardMoves
            /\ (GuardState(g) = "Unbound" /\ GuardState(g)' # "Unbound") =>
                    /\ ~Has(log[guardCond'[g]], "initialize")
                    /\ Has(log'[guardCond'[g]], "initialize")
            /\ (movedFrom'[g] /\ ~movedFrom[g]) =>
                    GuardState(g)' = "EmptyMovedFrom"
            /\ (guardLife[g] = "alive" /\ guardLife'[g] = "dead"
                    /\ ~movedFrom[g]) => GuardState(g)' = "BoundCheckedExit"
        /\ guardLife[g] # "unborn" =>
                guardCond'[g] \in {guardCond[g], NoCond}
        /\ deletedBy'[g] # deletedBy[g] =>
                /\ deletedBy[g] = NoCond
                /\ deletedBy'[g] = guardCond[g]
                /\ Has(log[guardCond[g]], "initialize")
                /\ ~Has(log[guardCond[g]], "delete")
      ]_vars

\* One guard made from a builder was copied from, another ran the exit checks.
C18_Witness ==
    \E g1, g2 \in Guards :
        /\ guardSrc[g1] = "contract" /\ guardSrc[g2] = "contract"
        /\ GuardState(g1) = "EmptyMovedFrom" /\ guardLife[g1] = "dead"
        /\ GuardState(g2) = "BoundCheckedExit"

----------------------------------------------------------------------------
(* C13 *)

ExitChecksOf == {"post", "except", "exit_static_inv", "exit_inv"}
EntryChecksOf == {"entry_static_inv", "entry_inv", "pre", "old"}

\* The check that fails has been evaluated for holder h.
Failed(h) == Has(log[h], failing)

\* C13 (as amended): each failed predicate is handed to the failure handler
\* once, with its kind; under the default handler the program is terminated;
\* under a handler that throws, a failed exit check leaves the guard's
\* destructor when the body had returned, and terminates the program when
\* the body had thrown (its exception is still on the way).
C13_FailureReported ==
    /\ \A h \in Holders :
        /\ Failed(h) <=> Has(reported, <<h, FailureOf(failing)>>)
        /\ Count(reported, <<h, FailureOf(failing)>>) <= 1
        /\ Count(log[h], failing) <= 1
    /\ \A i \in 1..Len(reported) : reported[i][2] = FailureOf(failing)
    /\ handler = "terminate" => (halted <=> reported # <<>>)
    /\ handler = "throw" =>
        /\ halted <=> \E h \in Holders :
                        Failed(h) /\ failing \in ExitChecksOf /\ Threw(h)
        /\ \A h \in Holders :
            (Failed(h) /\ failing \in ExitChecksOf /\ ~Threw(h)) =>
                \E g \in Guards :
                    deletedBy[g] = h /\ Has(escaped, <<"dtor", g>>)
        /\ \A h \in Holders :
            (Failed(h) /\ failing \in ExitChecksOf /\ Threw(h)) =>
                \A g \in Guards : deletedBy[g] = h => ~Has(escaped, <<"dtor", g>>)

\* Under a throwing handler the exit invariant failed twice: after a body that
\* returned, where the failure left the destructor, and after one that threw.
C13_Witness ==
    /\ handler = "throw" /\ failing = "exit_inv"
    /\ \E h1, h2 \in Holders, g \in Guards :
        /\ Failed(h1) /\ Failed(h2)
        /\ Threw(h1) /\ bodyState[h2] = "returned"
        /\ deletedBy[g] = h2 /\ Has(escaped, <<"dtor", g>>)
    /\ halted

\* C13 (as stated): under a throwing handler every failed exit check leaves
\* the guard's destructor.
C13_ExitFailureAlwaysPropagates ==
    handler = "throw" =>
        \A h \in Holders :
            (Failed(h) /\ failing \in ExitChecksOf) =>
                /\ ~halted
                /\ \E g \in Guards :
                    deletedBy[g] = h /\ Has(escaped, <<"dtor", g>>)

----------------------------------------------------------------------------
(* C19 *)

----------------------------------------------------------------------------
(* C15 *)

\* C15: a builder that is created and configured but never made into a guard
\* causes no check at all, neither while it exists nor when it is dropped: a
\* holder that no guard's constructor has initialised has run no check, and a
\* dropped one never gets to a guard.
C15_NeverBound ==
    \A h \in Holders :
        /\ ~Has(log[h], "initialize") =>
                \A e \in Checks \cup {"delete"} : ~Has(log[h], e)
        /\ Has(log[h], "discard") =>
            /\ Range(log[h]) \subseteq {"oldof", "discard"}
            /\ builderCond[h] = NoCond
            /\ \A g \in Guards : guardCond[g] # h /\ deletedBy[g] # h

\* A builder of a contract with a precondition, a postcondition and a class
\* invariant has been dropped.
C15_Witness ==
    /\ contract.pre /\ contract.post /\ contract.inv
    /\ \E h \in Holders : Has(log[h], "discard") /\ bodyState[h] = "unguarded"

----------------------------------------------------------------------------
(* C16 *)

\* C16: when one builder is bound to a guard twice, the holder's entry checks
\* and exit checks still run at most once each, and the second binding uses
\* no absent holder.
C16_SecondBindingHarmless ==
    /\ \A h \in Holders :
        \A e \in EntryEvents \cup ExitEvents : Count(log[h], e) <= 1
    /\ ~nullUse

----------------------------------------------------------------------------
(* C14 *)

\* What the build with conditions makes of a call.
CheckedResult(o, fn, a, n) ==
    CASE fn = "get" -> Get(DynType(o), n)
      [] fn = "dec" -> Dec(DynType(o), n)
      [] OTHER -> Set(DynType(o), n, a)

\* C14: in the build without conditions, making a guard from a builder,
\* copying it and destroying it evaluate no predicate (all that happens in a
\* guarded scope is its body), nothing reaches the failure handler, and a call
\* in which the build with conditions finds no failing check leaves the same
\* value in the object as that build does.
C14_StrippedBuild ==
    /\ \A h \in Holders : Range(log[h]) \subseteq {"body"}
    /\ reported = <<>> /\ ~halted /\ ~terminated
    /\ \A g \in Guards : guardCond[g] = NoCond /\ deletedBy[g] = NoCond
    /\ call.src = "stripped" =>
        /\ call.log = <<>>
        /\ LET r == CheckedResult(call.obj, call.fn, call.arg, call.n0) IN
            r.fail = NoFail => (call.n = r.n /\ cntN[call.obj] = r.n)

\* A guard was made from a builder of a contract with every element, copied,
\* and both were destroyed around a body that ran; b.dec() then took the
\* counter10 from -10 to -20, as the build with conditions would.
C14_Witness ==
    /\ \E g1, g2 \in Guards :
        /\ guardSrc[g1] = "contract" /\ movedFrom[g1] /\ guardSrc[g2] = "copy"
        /\ guardLife[g1] = "dead" /\ guardLife[g2] = "dead"
    /\ log[1] = <<"body">>
    /\ call.src = "stripped" /\ call.obj = "cnt10" /\ call.fn = "dec"
    /\ call.n0 = -10 /\ call.n = -20
    /\ CheckedResult("cnt10", "dec", 0, -10).fail = NoFail

----------------------------------------------------------------------------
(* C20 *)

\* The frames of predicates on the stack.
PredFrames == {i \in 1..Len(stack) : stack[i].kind = "pred"}

\* C20: a predicate that calls a contracted function does not set off the
\* checks of that function: at most one predicate is being evaluated at any
\* time, the stack of calls stays short, one call of get(), dec() or set()
\* evaluates a bounded number of predicates, and every call that has been
\* started returns.
C20_ChecksTerminate ==
    /\ [](/\ ~overflow
          /\ Cardinality(PredFrames) <= 1
          /\ Len(stack) <= 6
          /\ evals <= 26
          /\ \A i \in PredFrames : \A j \in (i + 1)..Len(stack) :
                stack[j].kind = "call" /\ Len(stack[j].todo) <= 1)
    /\ (stack # <<>>) ~> (stack = <<>>)

\* counter10::invariant() is being evaluated for b.dec() and has called get(),
\* which is running counter10::get's body only.
C20_Witness ==
    /\ Len(stack) >= 3
    /\ stack[1].fn = "dec" /\ stack[1].dyn = "counter10"
    /\ \E i \in 2..(Len(stack) - 1) :
        /\ stack[i].kind = "pred" /\ stack[i].what = "inv"
        /\ stack[i + 1].kind = "call" /\ stack[i + 1].fn = "get"
        /\ stack[i + 1].cls = "counter10"
        /\ stack[i + 1].todo = <<>>
    /\ evals > 1

====
